---- MODULE Spec2Model ----
(***************************************************************************)
(* Model of transformer_engine/paddle/layer/rmsnorm.py: the RMSNorm layer  *)
(* (construction, backend dispatch, the accelerated PyLayer path and the   *)
(* direct-arithmetic path) and the forward/backward context of _RMSNorm.   *)
(*                                                                         *)
(* Numbers.  Input and scale elements are integers.  Every value the       *)
(* non-zero-centered formula produces has the form q / sqrt(a) with q an   *)
(* integer and a a positive rational, so it is kept exactly as its sign    *)
(* and its square (a reduced fraction): two such records are equal iff     *)
(* the real numbers are equal.  Floating-point rounding is not modelled.   *)
(***************************************************************************)
EXTENDS Integers, Sequences, FiniteSets, TLC

VARIABLES env, layer, born, ctxs, last, fnArgs, fnRes

vars == <<env, layer, born, ctxs, last, fnArgs, fnRes>>

(***************************************************************************)
(* Bounds of the model.                                                    *)
(***************************************************************************)
MaxRank == 3
MaxElems == 4
MaxHidden == 2
MaxCtx == 2

\* element values of input tensors and of trained scale vectors
InputVals == {-1, 0, 2}
WeightVals == {0, 2}

None == [kind |-> "None"]

(***************************************************************************)
(* Exact arithmetic.                                                       *)
(***************************************************************************)
RECURSIVE GCD(_, _)
GCD(a, b) == IF b = 0 THEN a ELSE GCD(b, a % b)

Rat(n, d) == LET g == GCD(n, d) IN [num |-> n \div g, den |-> d \div g]

RatAdd(a, b) == Rat(a.num * b.den + b.num * a.den, a.den * b.den)

Sign(x) == IF x > 0 THEN 1 ELSE IF x < 0 THEN -1 ELSE 0

\* the real number sgn * sqrt(num/den)
Real(sgn, n, d) ==
    IF sgn = 0 \/ n = 0 THEN [sgn |-> 0, num |-> 0, den |-> 1]
    ELSE [sgn |-> sgn, num |-> Rat(n, d).num, den |-> Rat(n, d).den]

FromInt(x) == Real(Sign(x), x * x, 1)

RMul(a, b) == Real(a.sgn * b.sgn, a.num * b.num, a.den * b.den)

\* 1/sqrt(a) for a rational a > 0
RSqrt(a) == Real(1, a.den, a.num)

(***************************************************************************)
(* Tensors: a shape and the elements in row-major order.                   *)
(***************************************************************************)
RECURSIVE Prod(_)
Prod(s) == IF s = <<>> THEN 1 ELSE s[1] * Prod(Tail(s))

RECURSIVE Unravel(_, _)
Unravel(i, s) ==
    IF s = <<>> THEN <<>>
    ELSE <<i \div Prod(Tail(s))>> \o Unravel(i % Prod(Tail(s)), Tail(s))

RECURSIVE Ravel(_, _)
Ravel(idx, s) ==
    IF s = <<>> THEN 0
    ELSE idx[1] * Prod(Tail(s)) + Ravel(Tail(idx), Tail(s))

RECURSIVE SumSeq(_)
SumSeq(s) == IF s = <<>> THEN 0 ELSE s[1] + SumSeq(Tail(s))

LastDim(t) == t.shape[Len(t.shape)]

Raise(exc, trace) == [kind |-> "raise", exc |-> exc, trace |-> trace]

(***************************************************************************)
(* paddle tensor operations used by the two paths.                         *)
(***************************************************************************)
\* Tensor.reshape: at most one -1 entry, inferred from the element count
reshape_shape(numel, shp) ==
    LET known == Prod([i \in 1..Len(shp) |-> IF shp[i] = -1 THEN 1 ELSE shp[i]])
    IN [i \in 1..Len(shp) |-> IF shp[i] = -1 THEN numel \div known ELSE shp[i]]

reshape_ok(t, shp) == Prod(reshape_shape(Prod(t.shape), shp)) = Prod(t.shape)

reshape(t, shp) == [shape |-> reshape_shape(Prod(t.shape), shp), data |-> t.data]

\* inp**2, elementwise
pow2(t) == [shape |-> t.shape, data |-> [i \in 1..Len(t.data) |-> t.data[i] * t.data[i]]]

\* paddle.mean(t, axis=-1, keepdim=True)
mean_last_keepdim(t) ==
    LET n == LastDim(t)
        rows == Prod(t.shape) \div n
    IN [shape |-> [t.shape EXCEPT ![Len(t.shape)] = 1],
        data |-> [r \in 1..rows |->
                    Rat(SumSeq(SubSeq(t.data, (r - 1) * n + 1, r * n)), n)]]

\* t + eps, elementwise on rationals
add_scalar(t, eps) ==
    [shape |-> t.shape, data |-> [i \in 1..Len(t.data) |-> RatAdd(t.data[i], eps)]]

\* paddle.rsqrt, elementwise
rsqrt(t) == [shape |-> t.shape, data |-> [i \in 1..Len(t.data) |-> RSqrt(t.data[i])]]

ToReal(t) == [shape |-> t.shape, data |-> [i \in 1..Len(t.data) |-> FromInt(t.data[i])]]

PadLeft(s, n) == [i \in 1..n |-> IF i <= n - Len(s) THEN 1 ELSE s[i - (n - Len(s))]]

Max(a, b) == IF a >= b THEN a ELSE b

\* numpy-style broadcasting of the elementwise product
broadcastable(a, b) ==
    LET n == Max(Len(a), Len(b))
    IN \A i \in 1..n :
          \/ PadLeft(a, n)[i] = PadLeft(b, n)[i]
          \/ PadLeft(a, n)[i] = 1
          \/ PadLeft(b, n)[i] = 1

broadcast_shape(a, b) ==
    LET n == Max(Len(a), Len(b))
    IN [i \in 1..n |-> Max(PadLeft(a, n)[i], PadLeft(b, n)[i])]

\* flat index into an operand of shape opshape for flat index i of the result
BIdx(i, outshape, opshape) ==
    LET full == Unravel(i, outshape)
        k == Len(outshape) - Len(opshape)
        idx == [j \in 1..Len(opshape) |-> IF opshape[j] = 1 THEN 0 ELSE full[j + k]]
    IN Ravel(idx, opshape)

\* a * b on real tensors, with broadcasting
multiply(a, b) ==
    LET shp == broadcast_shape(a.shape, b.shape)
    IN [shape |-> shp,
        data |-> [i \in 1..Prod(shp) |->
                    RMul(a.data[BIdx(i - 1, shp, a.shape) + 1],
                         b.data[BIdx(i - 1, shp, b.shape) + 1])]]

TData(t) == [shape |-> t.shape, data |-> t.data]

(***************************************************************************)
(* The external kernel pair (cpp_extensions), by its contract.             *)
(***************************************************************************)
\* rmsnorm_fwd: (input matrix, scale, eps, SM margin, zero-centered flag)
\*   -> (output matrix, reciprocal-RMS statistic per row)
\* y = x / sqrt(mean(x^2) + eps) * scale, or, zero-centered,
\* y = x / (rms(x) + eps) * (1 + scale), kept as an unevaluated term.
rmsnorm_fwd(inputmat, weight, eps, sm_margin, zero_centered_gamma) ==
    LET rows == inputmat.shape[1]
        n == inputmat.shape[2]
        ms == [r \in 1..rows |->
                 Rat(SumSeq([c \in 1..n |-> inputmat.data[(r - 1) * n + c]
                                              * inputmat.data[(r - 1) * n + c]]), n)]
        rsigma == [r \in 1..rows |->
                     IF zero_centered_gamma
                     THEN [form |-> "1/(rms+eps)", ms |-> ms[r], eps |-> eps]
                     ELSE RSqrt(RatAdd(ms[r], eps))]
        elem(r, c) ==
            LET x == inputmat.data[(r - 1) * n + c]
            IN IF zero_centered_gamma
               THEN [form |-> "x*(1+gamma)*rsigma",
                     q |-> x * (1 + weight.data[c]), rsigma |-> rsigma[r]]
               ELSE RMul(RMul(FromInt(x), rsigma[r]), FromInt(weight.data[c]))
    IN [out |-> [shape |-> inputmat.shape,
                 data |-> [i \in 1..(rows * n) |->
                             elem(((i - 1) \div n) + 1, ((i - 1) % n) + 1)]],
        rsigma |-> [shape |-> <<rows>>, data |-> rsigma]]

\* rmsnorm_bwd: (output gradient, saved input matrix, statistic, scale, SM margin,
\*   zero-centered flag) -> (input gradient, scale gradient); only the shapes of
\* the gradients are part of the contract
rmsnorm_bwd(d_out, inputmat, rsigma, weight, sm_margin, zero_centered_gamma) ==
    [dxmat |-> [shape |-> inputmat.shape, grad_of |-> "inputmat"],
     dgamma |-> [shape |-> weight.shape, grad_of |-> "rmsnorm_weight"]]

KernelFwd(inputmat, weight, eps, sm_margin, zcg) ==
    [op |-> "rmsnorm_fwd", inputmat |-> inputmat, weight |-> TData(weight), eps |-> eps,
     sm_margin |-> sm_margin, zero_centered_gamma |-> zcg]

KernelBwd(d_out, inputmat, rsigma, weight, sm_margin, zcg) ==
    [op |-> "rmsnorm_bwd", d_out |-> d_out, inputmat |-> inputmat, rsigma |-> rsigma,
     weight |-> weight, sm_margin |-> sm_margin, zero_centered_gamma |-> zcg]

(***************************************************************************)
(* class _RMSNorm(paddle.autograd.PyLayer)                                 *)
(***************************************************************************)
\* variant: the kernel's matrix is returned without reshaping it to inp.shape
_RMSNorm_forward_flat(inp, rmsnorm_weight, eps, fwd_rmsnorm_sm_margin, bwd_rmsnorm_sm_margin, zero_centered_gamma) ==
    LET in_features == rmsnorm_weight.shape[1]
    IN IF LastDim(inp) # in_features THEN Raise("AssertionError", <<>>)
       ELSE
         LET inputmat == reshape(inp, <<-1, in_features>>)
             k == rmsnorm_fwd(inputmat, rmsnorm_weight, eps, fwd_rmsnorm_sm_margin, zero_centered_gamma)
         IN [kind |-> "ok",
             out |-> k.out,
             ctx |-> [saved |-> <<inputmat, TData(rmsnorm_weight), k.rsigma>>,
                      inp_shape |-> inp.shape,
                      bwd_rmsnorm_sm_margin |-> bwd_rmsnorm_sm_margin,
                      zero_centered_gamma |-> zero_centered_gamma,
                      requires_dx |-> ~inp.stop_gradient,
                      requires_dw |-> ~rmsnorm_weight.stop_gradient],
             trace |-> <<KernelFwd(inputmat, rmsnorm_weight, eps, fwd_rmsnorm_sm_margin, zero_centered_gamma)>>]

\* variant: the compatibility check runs after the kernel call
_RMSNorm_forward_late_assert(inp, rmsnorm_weight, eps, fwd_rmsnorm_sm_margin, bwd_rmsnorm_sm_margin, zero_centered_gamma) ==
    LET in_features == rmsnorm_weight.shape[1]
    IN IF ~reshape_ok(inp, <<-1, in_features>>) THEN Raise("ValueError", <<>>)
       ELSE
         LET inputmat == reshape(inp, <<-1, in_features>>)
             k == rmsnorm_fwd(inputmat, rmsnorm_weight, eps, fwd_rmsnorm_sm_margin, zero_centered_gamma)
             call == <<KernelFwd(inputmat, rmsnorm_weight, eps, fwd_rmsnorm_sm_margin, zero_centered_gamma)>>
         IN IF LastDim(inp) # in_features THEN Raise("AssertionError", call)
            ELSE [kind |-> "ok",
                  out |-> reshape(k.out, inp.shape),
                  ctx |-> [saved |-> <<inputmat, TData(rmsnorm_weight), k.rsigma>>,
                           inp_shape |-> inp.shape,
                           bwd_rmsnorm_sm_margin |-> bwd_rmsnorm_sm_margin,
                           zero_centered_gamma |-> zero_centered_gamma,
                           requires_dx |-> ~inp.stop_gradient,
                           requires_dw |-> ~rmsnorm_weight.stop_gradient],
                  trace |-> call]

_RMSNorm_forward(inp, rmsnorm_weight, eps, fwd_rmsnorm_sm_margin, bwd_rmsnorm_sm_margin, zero_centered_gamma) ==
    LET in_features == rmsnorm_weight.shape[1]
    IN IF LastDim(inp) # in_features THEN Raise("AssertionError", <<>>)
       ELSE IF ~reshape_ok(inp, <<-1, in_features>>) THEN Raise("ValueError", <<>>)
       ELSE
         LET inputmat == reshape(inp, <<-1, in_features>>)
             k == rmsnorm_fwd(inputmat, rmsnorm_weight, eps,
                              fwd_rmsnorm_sm_margin, zero_centered_gamma)
         IN [kind |-> "ok",
             out |-> reshape(k.out, inp.shape),
             ctx |-> [saved |-> <<inputmat, TData(rmsnorm_weight), k.rsigma>>,
                      inp_shape |-> inp.shape,
                      bwd_rmsnorm_sm_margin |-> bwd_rmsnorm_sm_margin,
                      zero_centered_gamma |-> zero_centered_gamma,
                      requires_dx |-> ~inp.stop_gradient,
                      requires_dw |-> ~rmsnorm_weight.stop_gradient],
             trace |-> <<KernelFwd(inputmat, rmsnorm_weight, eps,
                                   fwd_rmsnorm_sm_margin, zero_centered_gamma)>>]

\* variant: one combined flag decides both gradients
_RMSNorm_backward_combined(ctx, grad_output) ==
    LET inputmat == ctx.saved[1]
        rmsnorm_weight == ctx.saved[2]
        rsigma == ctx.saved[3]
        d_rmsnorm_out == reshape(grad_output, inputmat.shape)
        g == rmsnorm_bwd(d_rmsnorm_out, inputmat, rsigma, rmsnorm_weight, ctx.bwd_rmsnorm_sm_margin, ctx.zero_centered_gamma)
        requires_grad == ctx.requires_dx \/ ctx.requires_dw
    IN [kind |-> "ok",
        dx |-> IF requires_grad
               THEN [shape |-> reshape_shape(Prod(g.dxmat.shape), ctx.inp_shape), grad_of |-> g.dxmat.grad_of]
               ELSE None,
        dw |-> IF requires_grad THEN g.dgamma ELSE None,
        trace |-> <<KernelBwd(d_rmsnorm_out, inputmat, rsigma, rmsnorm_weight, ctx.bwd_rmsnorm_sm_margin, ctx.zero_centered_gamma)>>]

\* variant: the saved state lives in one shared slot, overwritten by every forward
_RMSNorm_backward_shared(ctx, grad_output) ==
    LET shared == ctxs[Len(ctxs)].ctx
        inputmat == shared.saved[1]
        rmsnorm_weight == shared.saved[2]
        rsigma == shared.saved[3]
    IN IF ~reshape_ok(grad_output, inputmat.shape) THEN Raise("ValueError", <<>>)
       ELSE
         LET d_rmsnorm_out == reshape(grad_output, inputmat.shape)
             g == rmsnorm_bwd(d_rmsnorm_out, inputmat, rsigma, rmsnorm_weight, shared.bwd_rmsnorm_sm_margin, shared.zero_centered_gamma)
         IN [kind |-> "ok",
             dx |-> IF shared.requires_dx
                    THEN [shape |-> reshape_shape(Prod(g.dxmat.shape), shared.inp_shape), grad_of |-> g.dxmat.grad_of]
                    ELSE None,
             dw |-> IF shared.requires_dw THEN g.dgamma ELSE None,
             trace |-> <<KernelBwd(d_rmsnorm_out, inputmat, rsigma, rmsnorm_weight, shared.bwd_rmsnorm_sm_margin, shared.zero_centered_gamma)>>]

_RMSNorm_backward(ctx, grad_output) ==
    LET inputmat == ctx.saved[1]
        rmsnorm_weight == ctx.saved[2]
        rsigma == ctx.saved[3]
    IN IF ~reshape_ok(grad_output, inputmat.shape) THEN Raise("ValueError", <<>>)
       ELSE
         LET d_rmsnorm_out == reshape(grad_output, inputmat.shape)
             g == rmsnorm_bwd(d_rmsnorm_out, inputmat, rsigma, rmsnorm_weight,
                              ctx.bwd_rmsnorm_sm_margin, ctx.zero_centered_gamma)
         IN [kind |-> "ok",
             dx |-> IF ctx.requires_dx
                    THEN [shape |-> reshape_shape(Prod(g.dxmat.shape), ctx.inp_shape),
                          grad_of |-> g.dxmat.grad_of]
                    ELSE None,
             dw |-> IF ctx.requires_dw THEN g.dgamma ELSE None,
             trace |-> <<KernelBwd(d_rmsnorm_out, inputmat, rsigma, rmsnorm_weight,
                                   ctx.bwd_rmsnorm_sm_margin, ctx.zero_centered_gamma)>>]


(***************************************************************************)
(* Process environment and int().                                          *)
(***************************************************************************)
Unset == [set |-> FALSE, val |-> <<>>]

SetTo(str) == [set |-> TRUE, val |-> str]

\* os.getenv(name, default)
getenv(e, name, default) == IF e[name].set THEN e[name].val ELSE default

Digits == {"0", "1", "2", "3", "4", "5", "6", "7", "8", "9"}

DigitVal(c) == CHOOSE d \in 0..9 : <<"0", "1", "2", "3", "4", "5", "6", "7", "8", "9">>[d + 1] = c

\* int(str) accepts a non-empty string of decimal digits here
int_ok(str) == Len(str) > 0 /\ \A i \in 1..Len(str) : str[i] \in Digits

RECURSIVE int_acc(_, _)
int_acc(str, acc) ==
    IF str = <<>> THEN acc ELSE int_acc(Tail(str), acc * 10 + DigitVal(str[1]))

int(str) == int_acc(str, 0)

(***************************************************************************)
(* class RMSNorm(paddle.nn.Layer)                                          *)
(***************************************************************************)
\* paddle.ParamAttr(initializer=Constant(value), trainable=...)
ParamAttr(value, trainable) == [kind |-> "ParamAttr", initializer |-> value, trainable |-> trainable]

\* Layer.create_parameter(shape=[hidden_size], attr=attr, is_bias=False)
create_parameter(hidden_size, attr) ==
    [shape |-> <<hidden_size>>,
     data |-> [i \in 1..hidden_size |-> attr.initializer],
     stop_gradient |-> ~attr.trainable,
     sequence_parallel |-> FALSE]

\* distributed.mark_as_sequence_parallel_parameter
mark_as_sequence_parallel_parameter(w) == [w EXCEPT !.sequence_parallel = TRUE]

RMSNorm__init__(hidden_size, eps, weight_attr, zero_centered_gamma, sequence_parallel, backend) ==
    LET _weight_attr == IF weight_attr = None THEN ParamAttr(1, TRUE) ELSE weight_attr
        w == create_parameter(hidden_size, _weight_attr)
        weight == IF sequence_parallel THEN mark_as_sequence_parallel_parameter(w) ELSE w
        fwd == getenv(env, "NVTE_FWD_LAYERNORM_SM_MARGIN", <<"0">>)
        bwd == getenv(env, "NVTE_BWD_LAYERNORM_SM_MARGIN", <<"0">>)
    IN IF ~int_ok(fwd) \/ ~int_ok(bwd) THEN Raise("ValueError", <<>>)
       ELSE [kind |-> "ok",
             self |-> [eps |-> eps,
                       zero_centered_gamma |-> zero_centered_gamma,
                       sequence_parallel |-> sequence_parallel,
                       backend |-> backend,
                       _weight_attr |-> _weight_attr,
                       weight |-> weight,
                       fwd_rmsnorm_sm_margin |-> int(fwd),
                       bwd_rmsnorm_sm_margin |-> int(bwd)]]

Op(name) == [op |-> name]

\* variant: the margins are read from the environment at every call
_te_forward_getenv(self, inp) ==
    LET fwd == getenv(env, "NVTE_FWD_LAYERNORM_SM_MARGIN", <<"0">>)
        bwd == getenv(env, "NVTE_BWD_LAYERNORM_SM_MARGIN", <<"0">>)
    IN IF ~int_ok(fwd) \/ ~int_ok(bwd) THEN Raise("ValueError", <<>>)
       ELSE _RMSNorm_forward(inp, self.weight, self.eps, int(fwd), int(bwd), self.zero_centered_gamma)

_te_forward(self, inp) ==
    _RMSNorm_forward(inp, self.weight, self.eps, self.fwd_rmsnorm_sm_margin, self.bwd_rmsnorm_sm_margin, self.zero_centered_gamma)

\* variant: eps is left out of the denominator
_pd_forward_no_eps(self, inp) ==
    IF self.zero_centered_gamma THEN Raise("NotImplementedError", <<>>)
    ELSE
      LET norm == rsqrt(mean_last_keepdim(pow2(inp)))
          t == multiply(ToReal(inp), norm)
          ops == <<Op("pow"), Op("mean"), Op("rsqrt"), Op("multiply")>>
      IN IF ~broadcastable(t.shape, self.weight.shape) THEN Raise("ValueError", ops)
         ELSE [kind |-> "ok",
               out |-> multiply(t, ToReal(self.weight)),
               ctx |-> None,
               trace |-> Append(ops, Op("multiply"))]

\* variant: the zero-centered check comes after the normalisation factor is computed
_pd_forward_late_check(self, inp) ==
    LET norm == rsqrt(add_scalar(mean_last_keepdim(pow2(inp)), self.eps))
        ops == <<Op("pow"), Op("mean"), Op("add"), Op("rsqrt")>>
    IN IF self.zero_centered_gamma THEN Raise("NotImplementedError", ops)
       ELSE
         LET t == multiply(ToReal(inp), norm)
         IN IF ~broadcastable(t.shape, self.weight.shape)
            THEN Raise("ValueError", Append(ops, Op("multiply")))
            ELSE [kind |-> "ok",
                  out |-> multiply(t, ToReal(self.weight)),
                  ctx |-> None,
                  trace |-> ops \o <<Op("multiply"), Op("multiply")>>]

_pd_forward(self, inp) ==
    IF self.zero_centered_gamma THEN Raise("NotImplementedError", <<>>)
    ELSE
      LET norm == rsqrt(add_scalar(mean_last_keepdim(pow2(inp)), self.eps))
          t == multiply(ToReal(inp), norm)
          ops == <<Op("pow"), Op("mean"), Op("add"), Op("rsqrt"), Op("multiply")>>
      IN IF ~broadcastable(t.shape, self.weight.shape) THEN Raise("ValueError", ops)
         ELSE [kind |-> "ok",
               out |-> multiply(t, ToReal(self.weight)),
               ctx |-> None,
               trace |-> Append(ops, Op("multiply"))]

\* variant: any other selector falls through to the direct-arithmetic path
RMSNorm_forward_fallback(self, inp) ==
    IF self.backend = "transformer_engine" THEN _te_forward(self, inp)
    ELSE _pd_forward(self, inp)

RMSNorm_forward(self, inp) ==
    IF self.backend = "transformer_engine" THEN _te_forward(self, inp)
    ELSE IF self.backend = "paddle" THEN _pd_forward(self, inp)
    ELSE Raise("AttributeError", <<>>)


(***************************************************************************)
(* Inputs of the operations.                                               *)
(***************************************************************************)
EnvNames == {"NVTE_FWD_LAYERNORM_SM_MARGIN", "NVTE_BWD_LAYERNORM_SM_MARGIN"}

EnvValues == {Unset, SetTo(<<"1", "2">>), SetTo(<<"x">>)}

DefaultEps == [num |-> 1, den |-> 100000]

EpsVals == {DefaultEps, [num |-> 1, den |-> 1000]}

Recognized == {"transformer_engine", "paddle"}

Backends == Recognized \cup {"torch"}

WeightAttrs == {None, ParamAttr(2, FALSE)}

HiddenSizes == 1..MaxHidden

\* input tensors offered to the layer, by shape and contents
Pool ==
    << [shape |-> <<2, 2>>, data |-> <<2, -1, 0, 2>>],
       [shape |-> <<2, 1, 2>>, data |-> <<-1, 2, 2, 0>>],
       [shape |-> <<2, 1>>, data |-> <<2, -1>>],
       [shape |-> <<3>>, data |-> <<0, 2, -1>>] >>

Input(i, sg) == [shape |-> Pool[i].shape, data |-> Pool[i].data, stop_gradient |-> sg]

\* the offered inputs whose last dimension is h
Matching(h) == {i \in 1..Len(Pool) : LastDim(Pool[i]) = h}

\* every input tensor within the bounds
Shapes == {s \in UNION {[1..r -> 1..MaxElems] : r \in 1..MaxRank} : Prod(s) <= MaxElems}

\* the gradient autograd hands to backward has the shape of forward's output
GradOutput(shape) == [shape |-> shape, data |-> [i \in 1..Prod(shape) |-> 1]]

Result(r) == IF r.kind = "ok" THEN [kind |-> "ok", out |-> r.out, trace |-> r.trace] ELSE r

(***************************************************************************)
(* State: the process environment, one layer variable, and the contexts    *)
(* of the forward calls whose backward has not run yet.  born, the fwd     *)
(* field of a context entry and last are history: the environment at the   *)
(* layer's construction, what a forward call was given, and the outcome of *)
(* the most recent operation.                                              *)
(***************************************************************************)
Init ==
    /\ env = [n \in EnvNames |-> Unset]
    /\ layer = None
    /\ born = None
    /\ ctxs = <<>>
    /\ last = Op("start")
    /\ fnArgs = None
    /\ fnRes = None

\* os.environ[name] = value, or del os.environ[name]
SetEnv(name, value) ==
    /\ env[name] # value
    /\ env' = [env EXCEPT ![name] = value]
    /\ last' = Op("setenv")
    /\ UNCHANGED <<layer, born, ctxs, fnArgs, fnRes>>

\* layer = RMSNorm(hidden_size, eps, weight_attr, zero_centered_gamma, sequence_parallel, backend)
Construct(hidden_size, eps, weight_attr, zero_centered_gamma, sequence_parallel, backend) ==
    LET r == RMSNorm__init__(hidden_size, eps, weight_attr, zero_centered_gamma, sequence_parallel, backend)
    IN /\ layer = None
       /\ layer' = IF r.kind = "ok" THEN r.self ELSE layer
       /\ born' = IF r.kind = "ok" THEN env ELSE born
       /\ last' = [op |-> "init", hidden_size |-> hidden_size, weight_attr |-> weight_attr,
                   zero_centered_gamma |-> zero_centered_gamma, backend |-> backend,
                   res |-> IF r.kind = "ok" THEN [kind |-> "ok"] ELSE r]
       /\ UNCHANGED <<env, ctxs, fnArgs, fnRes>>

\* layer(inp)
Forward(i, sg) ==
    /\ layer # None
    /\ LET inp == Input(i, sg)
           r == RMSNorm_forward(layer, inp)
           saves == r.kind = "ok" /\ r.ctx # None
       IN /\ saves => Len(ctxs) < MaxCtx
          /\ ctxs' = IF saves
                     THEN Append(ctxs, [ctx |-> r.ctx, inp |-> inp,
                                        fwd |-> [self |-> layer, born |-> born, inp |-> inp]])
                     ELSE ctxs
          /\ last' = [op |-> "forward", self |-> layer, inp |-> inp, res |-> Result(r)]
    /\ UNCHANGED <<env, layer, born, fnArgs, fnRes>>

Remove(seq, k) == SubSeq(seq, 1, k - 1) \o SubSeq(seq, k + 1, Len(seq))

\* autograd runs the backward of forward call k and releases its context
Backward(k) ==
    /\ k \in 1..Len(ctxs)
    /\ ctxs' = Remove(ctxs, k)
    /\ last' = [op |-> "backward", fwd |-> ctxs[k].fwd,
                res |-> _RMSNorm_backward(ctxs[k].ctx, GradOutput(ctxs[k].ctx.inp_shape))]
    /\ UNCHANGED <<env, layer, born, fnArgs, fnRes>>

\* inp.stop_gradient = b, on the input of forward call k
SetInputStopGradient(k, b) ==
    /\ k \in 1..Len(ctxs)
    /\ ctxs[k].inp.stop_gradient # b
    /\ ctxs' = [ctxs EXCEPT ![k].inp.stop_gradient = b]
    /\ last' = Op("set_stop_gradient")
    /\ UNCHANGED <<env, layer, born, fnArgs, fnRes>>

\* layer.weight.stop_gradient = b
SetWeightStopGradient(b) ==
    /\ layer # None
    /\ layer.weight.stop_gradient # b
    /\ layer' = [layer EXCEPT !.weight.stop_gradient = b]
    /\ last' = Op("set_stop_gradient")
    /\ UNCHANGED <<env, born, ctxs, fnArgs, fnRes>>

\* layer.zero_centered_gamma = value, layer.bwd_rmsnorm_sm_margin = value: the
\* attributes whose values a forward call records for its backward
SetAttr(name, value) ==
    /\ layer # None
    /\ layer' = IF name = "zero_centered_gamma"
                THEN [layer EXCEPT !.zero_centered_gamma = value]
                ELSE [layer EXCEPT !.bwd_rmsnorm_sm_margin = value]
    /\ layer' # layer
    /\ last' = Op("setattr")
    /\ UNCHANGED <<env, born, ctxs, fnArgs, fnRes>>

\* construction and calls, over every configuration, in the default environment
Next ==
    \/ \E hs \in HiddenSizes, e \in EpsVals, wa \in WeightAttrs, zcg \in BOOLEAN, sp \in BOOLEAN, be \in Backends : Construct(hs, e, wa, zcg, sp, be)
    \/ \E i \in 1..Len(Pool), sg \in BOOLEAN : Forward(i, sg)
    \/ \E k \in 1..MaxCtx : Backward(k)

Spec == Init /\ [][Next]_vars

\* the environment changes before and after the layer is constructed
NextEnv ==
    \/ \E name \in EnvNames, value \in EnvValues : SetEnv(name, value)
    \/ \E hs \in HiddenSizes, zcg \in BOOLEAN, be \in Backends : Construct(hs, DefaultEps, None, zcg, FALSE, be)
    \/ \E i \in 1..Len(Pool) : Forward(i, FALSE)
    \/ \E k \in 1..MaxCtx : Backward(k)

SpecEnv == Init /\ [][NextEnv]_vars

\* stop_gradient flags of the inputs and of the scale change between the calls
\* of an accelerated-path layer
NextGrad ==
    \/ \E hs \in HiddenSizes : Construct(hs, DefaultEps, None, FALSE, FALSE, "transformer_engine")
    \/ \E i \in 1..Len(Pool), sg \in BOOLEAN : Forward(i, sg)
    \/ \E k \in 1..MaxCtx : Backward(k)
    \/ \E k \in 1..MaxCtx, b \in BOOLEAN : SetInputStopGradient(k, b)
    \/ \E b \in BOOLEAN : SetWeightStopGradient(b)

SpecGrad == Init /\ [][NextGrad]_vars

\* layer attributes and input flags change between the calls of an
\* accelerated-path layer
NextAttr ==
    \/ \E wa \in WeightAttrs, zcg \in BOOLEAN : Construct(MaxHidden, DefaultEps, wa, zcg, FALSE, "transformer_engine")
    \/ \E i \in Matching(MaxHidden), sg \in BOOLEAN : Forward(i, sg)
    \/ \E k \in 1..MaxCtx : Backward(k)
    \/ \E k \in 1..MaxCtx, b \in BOOLEAN : SetInputStopGradient(k, b)
    \/ \E value \in BOOLEAN : SetAttr("zero_centered_gamma", value)
    \/ \E value \in {0, 12} : SetAttr("bwd_rmsnorm_sm_margin", value)

SpecAttr == Init /\ [][NextAttr]_vars

(***************************************************************************)
(* The forward function on every input within the bounds: both backends    *)
(* applied to the same input, scale vector, eps and zero-centered flag.    *)
(***************************************************************************)
FnInit ==
    /\ env = [n \in EnvNames |-> Unset]
    /\ layer = None
    /\ born = None
    /\ ctxs = <<>>
    /\ last = Op("start")
    /\ \E s \in Shapes, h \in HiddenSizes :
         \E d \in [1..Prod(s) -> InputVals], w \in [1..h -> WeightVals], e \in EpsVals, zcg \in BOOLEAN :
            fnArgs = [inp |-> [shape |-> s, data |-> d, stop_gradient |-> FALSE],
                      weight |-> w, eps |-> e, zero_centered_gamma |-> zcg]
    /\ fnRes = [be \in Recognized |-> None]

\* RMSNorm(len(weight), eps, zero_centered_gamma=..., backend=be) with the scale
\* vector set to weight, applied to inp
FnForward(be) ==
    /\ fnRes[be] = None
    /\ LET c == RMSNorm__init__(Len(fnArgs.weight), fnArgs.eps, None, fnArgs.zero_centered_gamma, FALSE, be)
           self == [c.self EXCEPT !.weight.data = fnArgs.weight]
       IN fnRes' = [fnRes EXCEPT ![be] = Result(RMSNorm_forward(self, fnArgs.inp))]
    /\ UNCHANGED <<env, layer, born, ctxs, last, fnArgs>>

FnNext == \E be \in Recognized : FnForward(be)

SpecFn == FnInit /\ [][FnNext]_vars


(***************************************************************************)
(* Properties.                                                             *)
(***************************************************************************)
Hidden(self) == self.weight.shape[1]

IsForward == last.op = "forward"

IsBackward == last.op = "backward"

KernelCalls(trace) == {i \in 1..Len(trace) : trace[i].op \in {"rmsnorm_fwd", "rmsnorm_bwd"}}

ShapeErrors == {"AssertionError", "ValueError"}

FnDone(be) == fnRes # None /\ fnRes[be] # None

FnMismatch == fnArgs # None /\ LastDim(fnArgs.inp) # Len(fnArgs.weight)

\* C1: on a recognized backend, an input whose last dimension differs from the
\* feature size (a last dimension of 1 included) makes forward fail with a
\* shape-mismatch error and return no tensor.  Stated for the configurations
\* forward supports (zero-centered gamma on 'paddle' fails earlier, see C5).
C1_MismatchFails ==
    \A be \in Recognized :
        (FnDone(be) /\ FnMismatch /\ ~(be = "paddle" /\ fnArgs.zero_centered_gamma))
            => (fnRes[be].kind = "raise" /\ fnRes[be].exc \in ShapeErrors)

\* C2: a successful forward on either backend, for an input of any rank whose
\* last dimension equals the feature size, returns a tensor of the input's
\* shape; the accelerated path hands the kernel the input flattened to
\* [product of the leading dimensions, feature size].
C2_OutputShape ==
    \A be \in Recognized :
        (FnDone(be) /\ ~FnMismatch /\ fnRes[be].kind = "ok")
            => /\ fnRes[be].out.shape = fnArgs.inp.shape
               /\ be = "transformer_engine" =>
                    /\ Len(fnRes[be].trace) = 1
                    /\ fnRes[be].trace[1].inputmat.shape =
                         <<Prod(fnArgs.inp.shape) \div Len(fnArgs.weight), Len(fnArgs.weight)>>
                    /\ fnRes[be].trace[1].inputmat.data = fnArgs.inp.data

C2_Witness ==
    /\ FnDone("transformer_engine") /\ FnDone("paddle")
    /\ fnRes["transformer_engine"].kind = "ok" /\ fnRes["paddle"].kind = "ok"
    /\ ~FnMismatch
    /\ Len(fnArgs.inp.shape) = 3
    /\ fnRes["transformer_engine"].trace[1].inputmat.shape = <<2, 2>>

\* y = x / sqrt(mean(x^2 over the last dimension) + eps) * scale, element by element
RefRMSNorm(inp, weight, eps) ==
    LET n == Len(weight)
        row(i) == SubSeq(inp.data, ((i - 1) \div n) * n + 1, ((i - 1) \div n) * n + n)
        ms(i) == Rat(SumSeq([c \in 1..n |-> row(i)[c] * row(i)[c]]), n)
    IN [shape |-> inp.shape,
        data |-> [i \in 1..Len(inp.data) |->
                    RMul(RMul(FromInt(inp.data[i]), RSqrt(RatAdd(ms(i), eps))),
                         FromInt(weight[((i - 1) % n) + 1]))]]

C3_GradsIndependent ==
    IsBackward =>
        /\ last.res.kind = "ok"
        /\ (last.res.dx = None) <=> last.fwd.inp.stop_gradient
        /\ (last.res.dw = None) <=> last.fwd.self.weight.stop_gradient

C3_Witness ==
    /\ IsBackward
    /\ last.fwd.inp.stop_gradient /\ ~last.fwd.self.weight.stop_gradient
    /\ last.res.dx = None /\ last.res.dw # None
    /\ layer.weight.stop_gradient

\* C4: created without a weight attribute, the scale is a vector of length
\* hidden_size, all ones without zero_centered_gamma and all zeros with it.
C4_DefaultInit ==
    (last.op = "init" /\ last.res.kind = "ok" /\ last.weight_attr = None)
        => /\ layer.weight.shape = <<last.hidden_size>>
           /\ \A i \in 1..last.hidden_size :
                 layer.weight.data[i] = IF last.zero_centered_gamma THEN 0 ELSE 1

\* C5: with backend 'paddle' and zero_centered_gamma, every forward raises
\* NotImplementedError before any tensor arithmetic and without a kernel call,
\* whatever the input.
C5_PaddleZeroCentered ==
    (IsForward /\ last.self.backend = "paddle" /\ last.self.zero_centered_gamma)
        => last.res = Raise("NotImplementedError", <<>>)

C5_Witness ==
    /\ IsForward /\ last.self.backend = "paddle" /\ last.self.zero_centered_gamma
    /\ LastDim(last.inp) # Hidden(last.self)
    /\ last.res.kind = "raise"

\* C6: a backend selector other than 'transformer_engine' and 'paddle' is
\* accepted at construction, the scale parameter being created as usual; every
\* forward call then raises AttributeError without running either path.
C6_UnknownBackend ==
    /\ (last.op = "init" /\ last.backend \notin Recognized)
          => /\ last.res.kind = "ok"
             /\ layer # None
             /\ layer.backend = last.backend
             /\ layer.weight.shape = <<last.hidden_size>>
    /\ (IsForward /\ last.self.backend \notin Recognized)
          => last.res = Raise("AttributeError", <<>>)

C6_Witness ==
    /\ IsForward /\ last.self.backend \notin Recognized
    /\ last.self.zero_centered_gamma
    /\ LastDim(last.inp) = Hidden(last.self)
    /\ last.res.kind = "raise"

\* the margin a layer constructed under environment e reads for name
MarginAt(e, name) == IF e[name].set THEN int(e[name].val) ELSE 0

\* C7: whatever the environment becomes after construction, the forward kernel
\* and the backward kernel are handed the margins the environment held when
\* the layer was constructed, 0 where the variable was unset.
C7_MarginsFromConstruction ==
    /\ (IsForward /\ KernelCalls(last.res.trace) # {})
          => \A i \in KernelCalls(last.res.trace) :
                last.res.trace[i].sm_margin = MarginAt(born, "NVTE_FWD_LAYERNORM_SM_MARGIN")
    /\ IsBackward
          => /\ KernelCalls(last.res.trace) # {}
             /\ \A i \in KernelCalls(last.res.trace) :
                   last.res.trace[i].sm_margin = MarginAt(last.fwd.born, "NVTE_BWD_LAYERNORM_SM_MARGIN")

C7_Witness ==
    /\ IsBackward
    /\ last.res.trace[1].sm_margin = 12
    /\ ~env["NVTE_BWD_LAYERNORM_SM_MARGIN"].set
    /\ born["NVTE_BWD_LAYERNORM_SM_MARGIN"].set
    /\ ~born["NVTE_FWD_LAYERNORM_SM_MARGIN"].set

\* what the forward call recorded in f hands to its backward
OwnKernelBwd(f) ==
    LET n == Hidden(f.self)
        inputmat == [shape |-> <<Prod(f.inp.shape) \div n, n>>, data |-> f.inp.data]
        k == rmsnorm_fwd(inputmat, f.self.weight, f.self.eps, f.self.fwd_rmsnorm_sm_margin, f.self.zero_centered_gamma)
    IN KernelBwd([shape |-> inputmat.shape, data |-> [i \in 1..Len(f.inp.data) |-> 1]],
                 inputmat, k.rsigma, TData(f.self.weight),
                 f.self.bwd_rmsnorm_sm_margin, f.self.zero_centered_gamma)

\* C9: under any interleaving of forward and backward calls, and any change of
\* layer attributes or stop_gradient flags in between, a backward call hands
\* the backward kernel the flattened input, scale, statistic, backward margin
\* and zero-centered flag of its own forward call, and returns the input
\* gradient in that call's input shape under that call's gradient flags.
C9_OwnContext ==
    IsBackward =>
        /\ last.res.kind = "ok"
        /\ last.res.trace = <<OwnKernelBwd(last.fwd)>>
        /\ last.res.dx = IF last.fwd.inp.stop_gradient THEN None
                         ELSE [shape |-> last.fwd.inp.shape, grad_of |-> "inputmat"]
        /\ last.res.dw = IF last.fwd.self.weight.stop_gradient THEN None
                         ELSE [shape |-> last.fwd.self.weight.shape, grad_of |-> "rmsnorm_weight"]

C9_Witness ==
    /\ IsBackward
    /\ Len(ctxs) = 1
    /\ ctxs[1].fwd.inp.shape # last.fwd.inp.shape
    /\ ctxs[1].fwd.self.zero_centered_gamma # last.fwd.self.zero_centered_gamma
    /\ ctxs[1].fwd.self.bwd_rmsnorm_sm_margin # last.fwd.self.bwd_rmsnorm_sm_margin
    /\ layer.zero_centered_gamma # last.fwd.self.zero_centered_gamma
    /\ layer.bwd_rmsnorm_sm_margin # last.fwd.self.bwd_rmsnorm_sm_margin
    /\ last.res.dx # None

\* C10: a forward call that fails invokes no kernel, saves no context and
\* leaves the scale parameter and every layer setting as they were.
C10_FailedForwardNoEffect ==
    [][(last'.op = "forward" /\ last'.res.kind = "raise")
          => /\ KernelCalls(last'.res.trace) = {}
             /\ ctxs' = ctxs
             /\ layer' = layer
             /\ last'.self = layer]_vars

C10_Witness ==
    /\ IsForward
    /\ last.res.kind = "raise"
    /\ last.res.exc = "AssertionError"
    /\ last.self.backend = "transformer_engine"
    /\ Len(ctxs) = 1

====
